---- MODULE Spec2Model ----
(***************************************************************************)
(* Model of the chat client src/src/App.tsx: the component state           *)
(* (messages, input, isLoading) of every viewer, the shared 'chats' table, *)
(* the startup hydration fetchChats and the submission pipeline handleSend *)
(* with its three awaited network calls; and of the serverless function    *)
(* src/api/chat.js, the handler that relays a request to the completion    *)
(* provider.  The client and the function share no state.                  *)
(*                                                                         *)
(* Text is modelled as a sequence of tokens (strings); a template literal  *)
(* or string concatenation is sequence concatenation.  The text typed in   *)
(* the input field is a sequence of one-character tokens.                  *)
(*                                                                         *)
(* A React state update is taken to be rendered before the next event or   *)
(* continuation runs, so a handler invoked in a state sees that state in   *)
(* its closure; the closure is then kept for the whole asynchronous run of *)
(* the handler.                                                            *)
(***************************************************************************)
EXTENDS Integers, Sequences, FiniteSets, TLC

VARIABLES
    messages,   \* messages[v]: the view model of viewer v (useState, line 24)
    input,      \* input[v]: the text of the input field (line 25)
    isLoading,  \* isLoading[v]: the in-flight flag (line 26)
    chats,      \* the rows of the supabase table 'chats', in insertion order
    hydration,  \* hydration[v]: the one fetchChats call of viewer v
    sends,      \* one record per accepted handleSend invocation, in order
    gw          \* the serverless function: its environment and current request

vars == <<messages, input, isLoading, chats, hydration, sends, gw>>

(***************************************************************************)
(* Bounds of the model.                                                    *)
(***************************************************************************)
MaxSubmits == 2          \* accepted submissions, all viewers together

MaxFaults == 1           \* network calls answered with anything but success

Viewers == {"v1", "v2"}

\* The browser that is open from the start; another one may open later.
FirstViewer == "v1"

\* What a viewer may type into the field: whitespace only, and text with
\* surrounding whitespace.
InputTexts == { <<" ">>, <<" ", "a", " ">> }

(***************************************************************************)
(* Constants of the program.                                               *)
(***************************************************************************)
getSessionId == "00000000-0000-0000-0000-000000000000"

SystemPreamble ==
    [role |-> "system", content |-> <<"You are a helpful, concise AI assistant.">>]

SorryText == <<"Sorry, I couldn't formulate a response.">>

GenericErrText == <<"An error occurred while processing your request.">>

FailedToFetch == <<"Failed to fetch">>

FailedToConnectText ==
    <<"Failed to connect to the API. This might be a CORS issue or network offline.">>

(***************************************************************************)
(* String.prototype.trim on a sequence of one-character tokens.            *)
(***************************************************************************)
RECURSIVE trimStart(_)
trimStart(s) ==
    IF s # <<>> /\ Head(s) = " " THEN trimStart(Tail(s)) ELSE s

RECURSIVE trimEnd(_)
trimEnd(s) ==
    IF s # <<>> /\ s[Len(s)] = " " THEN trimEnd(SubSeq(s, 1, Len(s) - 1)) ELSE s

trim(s) == trimEnd(trimStart(s))

\* Number to string, as the template literal of line 108 converts
\* response.status.
StatusString(n) ==
    CASE n = 502 -> "502"
      [] n = 429 -> "429"
      [] n = 401 -> "401"
      [] OTHER -> "???"

(***************************************************************************)
(* What the environment can answer.                                        *)
(***************************************************************************)
\* Outcome of an insert into 'chats': the row is written, the client returns
\* {error}, or the awaited call rejects (throws) with the given message.
InsertOutcomes ==
    { [kind |-> "ok",       message |-> <<>>],
      [kind |-> "error",    message |-> <<"permission denied for table chats">>],
      [kind |-> "rejected", message |-> FailedToFetch] }

\* Outcome of the select of fetchChats.
SelectOutcomes == {"ok", "error"}

\* Outcome of the fetch to the completion endpoint: the fetch rejects, or a
\* response arrives: a non-2xx status, a body without `choices`, a body whose
\* first choice has no content, a body with a completion.
GatewayReplies ==
    { [kind |-> "rejected", message |-> FailedToFetch,
       ok |-> FALSE, status |-> 0, statusText |-> "", hasChoices |-> FALSE, content |-> <<>>],
      [kind |-> "response", message |-> <<>>,
       ok |-> FALSE, status |-> 502, statusText |-> "Bad Gateway", hasChoices |-> FALSE, content |-> <<>>],
      [kind |-> "response", message |-> <<>>,
       ok |-> TRUE, status |-> 200, statusText |-> "OK", hasChoices |-> FALSE, content |-> <<>>],
      [kind |-> "response", message |-> <<>>,
       ok |-> TRUE, status |-> 200, statusText |-> "OK", hasChoices |-> TRUE, content |-> <<>>],
      [kind |-> "response", message |-> <<>>,
       ok |-> TRUE, status |-> 200, statusText |-> "OK", hasChoices |-> TRUE, content |-> <<"Hi there!">>] }

\* The TypeError of resData.choices[0] when the body has no `choices`.
ChoicesTypeError == <<"Cannot read properties of undefined (reading '0')">>

(***************************************************************************)
(* Identifiers.  crypto.randomUUID() returns a fresh value: the n-th call  *)
(* of the i-th accepted handleSend is <<"uuid", i, n>>.  The store assigns *)
(* <<"row", k>> to the k-th row.                                           *)
(***************************************************************************)
randomUUID(i, n) == <<"uuid", i, n>>

RowId(k) == <<"row", k>>

(***************************************************************************)
(* The store.                                                              *)
(***************************************************************************)
\* The row the store writes for an insert payload: it assigns id and
\* created_at.
NewRow(payload) ==
    [id         |-> RowId(Len(chats) + 1),
     session_id |-> payload.session_id,
     role       |-> payload.role,
     content    |-> payload.content,
     created_at |-> Len(chats) + 1]

\* Insertion of row r into a sequence sorted by created_at, after the rows
\* of equal created_at.
RECURSIVE InsertByCreatedAt(_, _)
InsertByCreatedAt(r, s) ==
    IF s = <<>> THEN <<r>>
    ELSE IF r.created_at < Head(s).created_at
         THEN <<r>> \o s
         ELSE <<Head(s)>> \o InsertByCreatedAt(r, Tail(s))

RECURSIVE OrderByCreatedAt(_)
OrderByCreatedAt(s) ==
    IF s = <<>> THEN <<>>
    ELSE InsertByCreatedAt(s[Len(s)], OrderByCreatedAt(SubSeq(s, 1, Len(s) - 1)))

\* from('chats').select('*').eq('session_id', sessionId).order('created_at')
SelectChats(sessionId) ==
    OrderByCreatedAt(SelectSeq(chats, LAMBDA r : r.session_id = sessionId))

\* A guard that looks at the flag only.
ValidateBusyOnly(text, loading) == ~ loading

(***************************************************************************)
(* Pure parts of handleSend.                                               *)
(***************************************************************************)
\* Line 66: the submission is accepted unless the trimmed input is empty or
\* a submission is in flight.
Validate(text, loading) == ~ (trim(text) = <<>> \/ loading)

\* Lines 69-70: the field and the flag after an accepted submission.
AcceptStateNoFlag(v) == [input |-> <<>>, isLoading |-> isLoading[v]]

AcceptState(v) == [input |-> <<>>, isLoading |-> TRUE]

\* Line 74.
newUserMsg(tempUserId, userMsgContent) ==
    [id |-> tempUserId, role |-> "user", content |-> userMsgContent]

\* m => ({ role: m.role, content: m.content }) over a list, line 88.
RECURSIVE MapRoleContent(_)
MapRoleContent(ms) ==
    IF ms = <<>> THEN <<>>
    ELSE <<[role |-> Head(ms).role, content |-> Head(ms).content]>>
         \o MapRoleContent(Tail(ms))

\* Lines 86-90; `closure` is the `messages` of the render handleSend was
\* created in.
apiMessages(closure, userMsgContent) ==
    <<SystemPreamble>> \o MapRoleContent(closure)
        \o <<[role |-> "user", content |-> userMsgContent]>>

\* Lines 79-83: what is inserted for the user turn.
UserInsertPayload(content) ==
    [session_id |-> getSessionId, role |-> "user", content |-> content]

\* An insert that stores the turn the prompt ended with under the role of
\* the turn the prompt began with.
AssistantInsertPayloadAsFirst(content) ==
    [session_id |-> getSessionId, role |-> SystemPreamble.role,
     content |-> content]

\* Lines 115-119: what is inserted for the assistant turn.
AssistantInsertPayload(content) ==
    [session_id |-> getSessionId, role |-> "assistant", content |-> content]

\* import.meta.env of the client bundle: the build inlines the variables
\* whose names start with VITE_, here the one the request of line 97 reads.
ImportMetaEnv == [VITE_NVIDIA_API_KEY |-> <<"nvapi-1">>]

\* Lines 93-105: the request the browser sends to the completion endpoint.
CompletionRequest(apiMsgs) ==
    [url     |-> "/api/nvidia/v1/chat/completions",
     method  |-> "POST",
     headers |-> [ContentType   |-> "application/json",
                  Authorization |-> <<"Bearer ">> \o ImportMetaEnv.VITE_NVIDIA_API_KEY],
     body    |-> [model |-> "meta/llama-3.1-70b-instruct", messages |-> apiMsgs,
                  temperature |-> "0.7", max_tokens |-> 1024]]

\* Line 108: the message of the Error thrown for a non-2xx response.
NvidiaApiError(status, statusText) ==
    <<"Nvidia API error: ", StatusString(status), " ", statusText>>

\* Line 112.
assistantMsgContent(content) == IF content # <<>> THEN content ELSE SorryText

\* Lines 134-137.
errMsgVerbatim(message) ==
    IF message # <<>> THEN message ELSE GenericErrText

errMsg(message) ==
    LET m == IF message # <<>> THEN message ELSE GenericErrText
    IN  IF m = FailedToFetch THEN FailedToConnectText ELSE m

\* Lines 138-142: the turn the catch block appends.
ErrorTurn(id, message) ==
    [id |-> id, role |-> "assistant", content |-> <<"Error: ">> \o errMsg(message)]

\* Lines 126-130: the turn appended after the assistant insert; `data` is
\* <<>> for a null savedAssistantMsg and <<row>> otherwise.
AssistantTurnLocal(data, id, content) ==
    [id |-> id, role |-> "assistant", content |-> content]

AssistantTurn(data, id, content) ==
    IF data # <<>> THEN data[1]
    ELSE [id |-> id, role |-> "assistant", content |-> content]

(***************************************************************************)
(* Initial state of a browser session: the first viewer has mounted and    *)
(* its fetchChats request is on its way (lines 42-44); no other browser is *)
(* open.  The shared table is empty or holds a row of an earlier visit.    *)
(* The serverless function is not part of the session.                     *)
(***************************************************************************)
OldRow ==
    [id |-> RowId(1), session_id |-> getSessionId, role |-> "user",
     content |-> <<"o">>, created_at |-> 1]

InitialTables == { <<>>, <<OldRow>> }

NoReply == [kind |-> "pending", message |-> <<>>, data |-> <<>>]

\* The serverless function while it is not deployed.
Undeployed ==
    [pc |-> "undeployed", env |-> <<>>, req |-> <<>>, apiKey |-> <<>>,
     envRead |-> FALSE, upstream |-> <<>>, reply |-> <<>>, headers |-> {},
     sent |-> <<>>, threw |-> FALSE]

\* The number of network calls answered so far with anything but success.
RECURSIVE CountNot(_, _)
CountNot(s, x) ==
    IF s = <<>> THEN 0
    ELSE (IF Head(s) # x THEN 1 ELSE 0) + CountNot(Tail(s), x)

RECURSIVE SendFaults(_)
SendFaults(ss) ==
    IF ss = <<>> THEN 0
    ELSE CountNot(Head(ss).outcomes, "ok") + SendFaults(Tail(ss))

Faults ==
    SendFaults(sends) + Cardinality({v \in Viewers : hydration[v].error})

MayAnswer(isSuccess) == isSuccess \/ Faults < MaxFaults

Init ==
    /\ messages  = [v \in Viewers |-> <<>>]
    /\ input     = [v \in Viewers |-> <<>>]
    /\ isLoading = [v \in Viewers |-> FALSE]
    /\ chats     \in InitialTables
    /\ hydration = [v \in Viewers |->
                        [pc    |-> IF v = FirstViewer THEN "sent" ELSE "unmounted",
                         error |-> FALSE, data |-> <<>>]]
    /\ sends     = <<>>
    /\ gw        = Undeployed

\* App(), lines 23-44: a browser opens the page; the first render and the
\* effect that calls fetchChats.
mount(v) ==
    /\ hydration[v].pc = "unmounted"
    /\ hydration' = [hydration EXCEPT ![v].pc = "sent"]
    /\ UNCHANGED <<messages, input, isLoading, chats, sends, gw>>

Mounted(v) == hydration[v].pc # "unmounted"

(***************************************************************************)
(* The input field (line 317); it is disabled while isLoading (line 319).  *)
(***************************************************************************)
onChange(v, text) ==
    /\ Mounted(v)
    /\ ~ isLoading[v]
    /\ input' = [input EXCEPT ![v] = text]
    /\ UNCHANGED <<messages, isLoading, chats, hydration, sends, gw>>

(***************************************************************************)
(* fetchChats, lines 50-62.                                                *)
(***************************************************************************)
\* The store evaluates the select.
StoreSelect(v, outcome) ==
    /\ hydration[v].pc = "sent"
    /\ MayAnswer(outcome = "ok")
    /\ hydration' = [hydration EXCEPT ![v] =
            [pc    |-> "answered",
             error |-> (outcome = "error"),
             data  |-> IF outcome = "ok" THEN SelectChats(getSessionId) ELSE <<>>]]
    /\ UNCHANGED <<messages, input, isLoading, chats, sends, gw>>

\* Lines 57-61, when the awaited select returns.  An array, also an empty
\* one, is truthy: every answer without error replaces the view model.
fetchChats(v) ==
    /\ hydration[v].pc = "answered"
    /\ messages' = [messages EXCEPT ![v] =
            IF hydration[v].error THEN @ ELSE hydration[v].data]
    /\ hydration' = [hydration EXCEPT ![v].pc = "done"]
    /\ UNCHANGED <<input, isLoading, chats, sends, gw>>

(***************************************************************************)
(* handleSend, lines 64-146.                                               *)
(***************************************************************************)
\* Lines 64-83, up to the first await: validate, optimistic append, and the
\* insert request for the user turn.
handleSend(v) ==
    /\ Mounted(v)
    /\ IF ~ Validate(input[v], isLoading[v])
       THEN UNCHANGED vars
       ELSE
        LET i              == Len(sends) + 1
            userMsgContent == trim(input[v])
            tempUserId     == randomUUID(i, 1)
            payload        == UserInsertPayload(userMsgContent)
        IN  /\ Len(sends) < MaxSubmits
            /\ input'     = [input EXCEPT ![v] = AcceptState(v).input]
            /\ isLoading' = [isLoading EXCEPT ![v] = AcceptState(v).isLoading]
            /\ messages'  = [messages EXCEPT ![v] =
                                Append(@, newUserMsg(tempUserId, userMsgContent))]
            /\ sends' = Append(sends,
                  [v              |-> v,
                   pc             |-> "userInsert",
                   userMsgContent |-> userMsgContent,
                   tempUserId     |-> tempUserId,
                   closure        |-> messages[v],
                   assistantMsgContent |-> <<>>,
                   completion     |-> <<>>,
                   reply          |-> NoReply,
                   \* history of the run
                   typed          |-> input[v],
                   hydrated       |-> (hydration[v].pc = "done"),
                   inserts        |-> <<payload>>,
                   outcomes       |-> <<>>,
                   rows           |-> <<>>,
                   fetches        |-> <<>>,
                   requests       |-> <<>>,
                   atBuild        |-> <<>>,
                   thrown         |-> <<>>,
                   atSettle       |-> <<>>])
            /\ UNCHANGED <<chats, hydration, gw>>

\* The store serves the insert request that send i is waiting for.
StoreInsert(i, outcome) ==
    /\ sends[i].pc \in {"userInsert", "assistantInsert"}
    /\ sends[i].reply.kind = "pending"
    /\ MayAnswer(outcome.kind = "ok")
    /\ LET payload == sends[i].inserts[Len(sends[i].inserts)]
           row     == NewRow(payload)
           \* the user insert has no .select(): its data is null
           data    == IF outcome.kind = "ok" /\ sends[i].pc = "assistantInsert"
                      THEN <<row>> ELSE <<>>
       IN  /\ chats' = IF outcome.kind = "ok" THEN Append(chats, row) ELSE chats
           /\ sends' = [sends EXCEPT
                  ![i].reply    = [kind |-> outcome.kind, message |-> outcome.message,
                                   data |-> data],
                  ![i].outcomes = Append(@, outcome.kind),
                  ![i].rows     = IF outcome.kind = "ok" THEN Append(@, row.id) ELSE @]
    /\ UNCHANGED <<messages, input, isLoading, hydration, gw>>

\* A settle step without the finally block.
SettleNoFinally(i, turn, thrown, outs) ==
    LET v == sends[i].v
    IN  /\ messages'  = [messages EXCEPT ![v] = Append(@, turn)]
        /\ sends' = [sends EXCEPT
               ![i].pc       = "done",
               ![i].reply    = NoReply,
               ![i].outcomes = outs,
               ![i].thrown   = thrown,
               ![i].atSettle = Append(messages[v], turn)]
        /\ UNCHANGED <<input, isLoading, chats, hydration, gw>>

\* A settle step that pushes the turn to every open browser, as a live
\* subscription to the table would.
SettleBroadcast(i, turn, thrown, outs) ==
    LET v == sends[i].v
    IN  /\ messages'  = [u \in Viewers |->
                            IF Mounted(u) THEN Append(messages[u], turn)
                            ELSE messages[u]]
        /\ isLoading' = [isLoading EXCEPT ![v] = FALSE]
        /\ sends' = [sends EXCEPT
               ![i].pc       = "done",
               ![i].reply    = NoReply,
               ![i].outcomes = outs,
               ![i].thrown   = thrown,
               ![i].atSettle = Append(messages[v], turn)]
        /\ UNCHANGED <<input, chats, hydration, gw>>

\* The last state update of a run and the finally block (lines 143-145):
\* `turn` is appended, the flag is cleared.
Settle(i, turn, thrown, outs) ==
    LET v == sends[i].v
    IN  /\ messages'  = [messages EXCEPT ![v] = Append(@, turn)]
        /\ isLoading' = [isLoading EXCEPT ![v] = FALSE]
        /\ sends' = [sends EXCEPT
               ![i].pc       = "done",
               ![i].reply    = NoReply,
               ![i].outcomes = outs,
               ![i].thrown   = thrown,
               ![i].atSettle = Append(messages[v], turn)]
        /\ UNCHANGED <<input, chats, hydration, gw>>

\* A catch block that repeats a failed gateway call once before giving up.
CatchRetry(i, message, outs) ==
    IF sends[i].pc = "gateway" /\ Len(sends[i].requests) < 2
    THEN /\ sends' = [sends EXCEPT
                ![i].outcomes = outs,
                ![i].fetches  = Append(@, @[1]),
                ![i].requests = Append(@, @[1])]
         /\ UNCHANGED <<messages, input, isLoading, chats, hydration, gw>>
    ELSE Settle(i, ErrorTurn(randomUUID(i, 2), message), <<message>>, outs)

\* Lines 132-145: catch and finally, for an error with the given message.
Catch(i, message, outs) ==
    Settle(i, ErrorTurn(randomUUID(i, 2), message), <<message>>, outs)

\* Lines 79-105, from the return of the user insert to the second await:
\* the result of the insert is dropped, the prompt is built and sent.
AfterUserInsert(i) ==
    /\ sends[i].pc = "userInsert"
    /\ sends[i].reply.kind # "pending"
    /\ IF sends[i].reply.kind = "rejected"
       THEN Catch(i, sends[i].reply.message, sends[i].outcomes)
       ELSE /\ sends' = [sends EXCEPT
                   ![i].pc      = "gateway",
                   ![i].reply   = NoReply,
                   ![i].fetches = Append(@, apiMessages(sends[i].closure,
                                                        sends[i].userMsgContent)),
                   ![i].requests = Append(@, CompletionRequest(
                                       apiMessages(sends[i].closure,
                                                   sends[i].userMsgContent))),
                   ![i].atBuild = messages[sends[i].v]]
            /\ UNCHANGED <<messages, input, isLoading, chats, hydration, gw>>

\* Lines 93-119, from the return of the fetch to the third await.
GatewayReply(i, r) ==
    /\ sends[i].pc = "gateway"
    /\ MayAnswer(r.ok /\ r.hasChoices /\ r.content # <<>>)
    /\ LET outcome == IF r.kind = "rejected" THEN "rejected"
                      ELSE IF ~ r.ok THEN "status"
                      ELSE IF ~ r.hasChoices THEN "malformed"
                      ELSE IF r.content = <<>> THEN "empty"
                      ELSE "ok"
           outs    == Append(sends[i].outcomes, outcome)
           content == assistantMsgContent(r.content)
           payload == AssistantInsertPayload(content)
       IN  CASE outcome = "rejected"  -> Catch(i, r.message, outs)
             [] outcome = "status"    ->
                    Catch(i, NvidiaApiError(r.status, r.statusText), outs)
             [] outcome = "malformed" -> Catch(i, ChoicesTypeError, outs)
             [] OTHER ->
                    /\ sends' = [sends EXCEPT
                           ![i].pc       = "assistantInsert",
                           ![i].assistantMsgContent = content,
                           ![i].completion = r.content,
                           ![i].inserts  = Append(@, payload),
                           ![i].outcomes = outs]
                    /\ UNCHANGED <<messages, input, isLoading, chats, hydration, gw>>

\* Lines 115-145, from the return of the assistant insert to the end.
AfterAssistantInsert(i) ==
    /\ sends[i].pc = "assistantInsert"
    /\ sends[i].reply.kind # "pending"
    /\ IF sends[i].reply.kind = "rejected"
       THEN Catch(i, sends[i].reply.message, sends[i].outcomes)
       ELSE Settle(i,
                   AssistantTurn(sends[i].reply.data, randomUUID(i, 2),
                                 sends[i].assistantMsgContent),
                   <<>>, sends[i].outcomes)

Next ==
    \/ \E v \in Viewers, text \in InputTexts : onChange(v, text)
    \/ \E v \in Viewers, o \in SelectOutcomes : StoreSelect(v, o)
    \/ \E v \in Viewers : fetchChats(v)
    \/ \E v \in Viewers : handleSend(v)
    \/ \E i \in 1..Len(sends), o \in InsertOutcomes : StoreInsert(i, o)
    \/ \E i \in 1..Len(sends) : AfterUserInsert(i)
    \/ \E i \in 1..Len(sends), r \in GatewayReplies : GatewayReply(i, r)
    \/ \E i \in 1..Len(sends) : AfterAssistantInsert(i)

Spec == Init /\ [][Next]_vars

\* The next step of the run of send i: the store or the endpoint answers the
\* call the run awaits, or the run resumes after the answer.
Resume(i) ==
    /\ i <= Len(sends)
    /\ \/ \E o \in InsertOutcomes : StoreInsert(i, o)
       \/ AfterUserInsert(i)
       \/ \E r \in GatewayReplies : GatewayReply(i, r)
       \/ AfterAssistantInsert(i)

\* A browser session in which every network call eventually returns or
\* fails, and the event loop resumes every run whose await has settled.
FairSpec == Spec /\ \A i \in 1..MaxSubmits : WF_vars(Resume(i))

\* A session of several browsers on the shared table: the first browser has
\* finished its startup hydration, the others open the page at any moment,
\* and all of them converse.  The store and the gateway answer every insert
\* and every completion request with success.
InitViewers ==
    /\ chats \in InitialTables
    /\ messages = [v \in Viewers |-> IF v = FirstViewer THEN chats ELSE <<>>]
    /\ input = [v \in Viewers |-> <<>>]
    /\ isLoading = [v \in Viewers |-> FALSE]
    /\ hydration = [v \in Viewers |->
            IF v = FirstViewer
            THEN [pc |-> "done", error |-> FALSE, data |-> chats]
            ELSE [pc |-> "unmounted", error |-> FALSE, data |-> <<>>]]
    /\ sends = <<>>
    /\ gw = Undeployed

NextViewers ==
    \/ \E v \in Viewers : mount(v)
    \/ \E v \in Viewers, text \in InputTexts : onChange(v, text)
    \/ \E v \in Viewers, o \in SelectOutcomes : StoreSelect(v, o)
    \/ \E v \in Viewers : fetchChats(v)
    \/ \E v \in Viewers : handleSend(v)
    \/ \E i \in 1..Len(sends) :
          \E o \in {x \in InsertOutcomes : x.kind = "ok"} : StoreInsert(i, o)
    \/ \E i \in 1..Len(sends) : AfterUserInsert(i)
    \/ \E i \in 1..Len(sends) :
          \E r \in {x \in GatewayReplies :
                        x.ok /\ x.hasChoices /\ x.content # <<>>} :
              GatewayReply(i, r)
    \/ \E i \in 1..Len(sends) : AfterAssistantInsert(i)

SpecViewers == InitViewers /\ [][NextViewers]_vars

(***************************************************************************)
(* api/chat.js: the serverless function handler(req, res).  gw holds the   *)
(* process environment and the invocation in progress: the request, the    *)
(* credential it resolved, the upstream calls it issued, the upstream      *)
(* reply, the headers it set and the responses it sent.  Invocations share *)
(* no state, so one invocation at a time is modelled.                      *)
(***************************************************************************)
\* Values of the upstream credential.
Keys == { <<"nvapi-1">>, <<"nvapi-2">> }

\* process.env: each of the two variables is unset (or empty) or holds a key.
Envs == [VITE_NVIDIA_API_KEY : Keys \cup {<<>>}, NVIDIA_API_KEY : Keys \cup {<<>>}]

Methods == {"OPTIONS", "GET", "POST", "PUT"}

\* req.body: not parsed (undefined), or an object with a messages array.
Bodies ==
    { [defined |-> FALSE, messages |-> <<>>],
      [defined |-> TRUE,
       messages |-> <<[role |-> "user", content |-> <<"a">>]>>] }

Requests == [method : Methods, body : Bodies]

\* Lines 3-6.
CorsHeaders ==
    { <<"Access-Control-Allow-Credentials", "true">>,
      <<"Access-Control-Allow-Origin", "*">>,
      <<"Access-Control-Allow-Methods", "GET,OPTIONS,PATCH,DELETE,POST,PUT">>,
      <<"Access-Control-Allow-Headers",
        "X-CSRF-Token, X-Requested-With, Accept, Accept-Version, Content-Length, Content-MD5, Content-Type, Date, X-Api-Version, Authorization">> }

\* JSON text is a sequence of tokens; whitespace tokens are insignificant.
IsSpace(t) == t = " "

\* response.json(): the value of a JSON text, as its significant tokens.
JsonParse(text) == SelectSeq(text, LAMBDA t : ~ IsSpace(t))

\* Whether response.json() accepts the text (it throws a SyntaxError if not).
IsJson(text) ==
    LET v == JsonParse(text)
    IN  v # <<>> /\ Head(v) = "{" /\ v[Len(v)] = "}"

JsonSyntaxError == <<"Unexpected token '<', \"<html>\" is not valid JSON">>

\* Outcome of the upstream fetch: it rejects, or a response arrives whose
\* body is read as text (non-2xx) or as JSON (2xx).
UpstreamReplies ==
    { [kind |-> "rejected", message |-> <<"fetch failed">>,
       ok |-> FALSE, status |-> 0, text |-> <<>>],
      [kind |-> "response", message |-> <<>>,
       ok |-> FALSE, status |-> 401, text |-> <<"Unauthorized">>],
      [kind |-> "response", message |-> <<>>,
       ok |-> FALSE, status |-> 429, text |-> <<"Too", " ", "Many">>],
      [kind |-> "response", message |-> <<>>,
       ok |-> TRUE, status |-> 200, text |-> <<"{", "\"choices\":[]", "}">>],
      [kind |-> "response", message |-> <<>>,
       ok |-> TRUE, status |-> 200, text |-> <<"{", " ", "\"choices\":[]", " ", "}">>],
      [kind |-> "response", message |-> <<>>,
       ok |-> TRUE, status |-> 200, text |-> <<"<html>">>] }

\* A response: its status, the keys of its JSON body (none for end()), and
\* their values.
Response(status, keys, error, details, data) ==
    [status |-> status, keys |-> keys, error |-> error, details |-> details,
     data |-> data]

\* Line 9.
PreflightResponse == Response(200, {}, <<>>, <<>>, <<>>)

\* Line 13.
MethodNotAllowed ==
    Response(405, {"error"}, <<"Method not allowed. Use POST.">>, <<>>, <<>>)

\* Lines 21-23.
MissingKeyResponse ==
    Response(500, {"error"},
             <<"Backend Configuration Error: NVIDIA API Key is missing on Vercel.">>,
             <<>>, <<>>)

UpstreamErrorResponse500(status, errText) ==
    Response(500, {"error"},
             <<"Nvidia upstream error: ", StatusString(status), " ">> \o errText,
             <<>>, <<>>)

\* Lines 42-47.
UpstreamErrorResponse(status, errText) ==
    Response(status, {"error"},
             <<"Nvidia upstream error: ", StatusString(status), " ">> \o errText,
             <<>>, <<>>)

\* Lines 49-50: res.json(data) serialises the parsed value.
DataResponse(data) == Response(200, {"data"}, <<>>, <<>>, data)

\* Line 54.
InternalErrorResponse(message) ==
    Response(500, {"error", "details"},
             <<"Internal Server Error fetching from Nvidia">>, message, <<>>)

\* The TypeError of line 26 when req.body is undefined.
DestructureTypeError ==
    <<"Cannot destructure property 'messages' of 'req.body' as it is undefined.">>

AllowedLoose(method) == method # "GET"

\* Line 12: the submission method.
Allowed(method) == method = "POST"

\* Line 18.
ResolveApiKey(env) ==
    IF env.VITE_NVIDIA_API_KEY # <<>> THEN env.VITE_NVIDIA_API_KEY
    ELSE env.NVIDIA_API_KEY

\* Lines 28-40: the upstream call.
UpstreamRequest(apiKey, msgs) ==
    [url     |-> "https://integrate.api.nvidia.com/v1/chat/completions",
     method  |-> "POST",
     headers |-> [ContentType   |-> "application/json",
                  Authorization |-> <<"Bearer ">> \o apiKey],
     body    |-> [model |-> "meta/llama-3.1-70b-instruct", messages |-> msgs,
                  temperature |-> "0.7", max_tokens |-> 1024]]

\* res.status(..).json(..) / .end(): the invocation returns.
Respond(g, response) ==
    [g EXCEPT !.pc = "responded", !.sent = Append(@, response)]

\* A handler whose catch block rethrows.
handlerRethrow(g, message) == [g EXCEPT !.pc = "responded", !.threw = TRUE]

\* Lines 52-55: the catch block.
handlerCatch(g, message) == Respond(g, InternalErrorResponse(message))

\* Lines 1-40: an invocation, up to its first await.
handler(req) ==
    /\ gw.pc \in {"idle", "responded"}
    /\ LET g0 == [pc |-> "running", env |-> gw.env, req |-> req,
                  apiKey |-> <<>>, envRead |-> FALSE, upstream |-> <<>>,
                  reply |-> <<>>, headers |-> CorsHeaders, sent |-> <<>>,
                  threw |-> FALSE]
           apiKey == ResolveApiKey(gw.env)
           g1 == [g0 EXCEPT !.apiKey = apiKey, !.envRead = TRUE]
       IN  gw' = IF req.method = "OPTIONS" THEN Respond(g0, PreflightResponse)
                 ELSE IF ~ Allowed(req.method) THEN Respond(g0, MethodNotAllowed)
                 ELSE IF apiKey = <<>> THEN Respond(g1, MissingKeyResponse)
                 ELSE IF ~ req.body.defined
                      THEN handlerCatch(g1, DestructureTypeError)
                 ELSE [g1 EXCEPT
                         !.pc = "upstream",
                         !.upstream = Append(@, UpstreamRequest(apiKey,
                                                          req.body.messages))]
    /\ UNCHANGED <<messages, input, isLoading, chats, hydration, sends>>

\* Lines 28-55: from the return of the upstream fetch to the response.
UpstreamReply(r) ==
    /\ gw.pc = "upstream"
    /\ LET g == [gw EXCEPT !.reply = <<r>>]
       IN  gw' = IF r.kind = "rejected" THEN handlerCatch(g, r.message)
                 ELSE IF ~ r.ok
                      THEN Respond(g, UpstreamErrorResponse(r.status, r.text))
                 ELSE IF ~ IsJson(r.text) THEN handlerCatch(g, JsonSyntaxError)
                 ELSE Respond(g, DataResponse(JsonParse(r.text)))
    /\ UNCHANGED <<messages, input, isLoading, chats, hydration, sends>>

\* The deployed function, before its first invocation; no browser is open.
InitServer ==
    /\ messages = [v \in Viewers |-> <<>>]
    /\ input = [v \in Viewers |-> <<>>]
    /\ isLoading = [v \in Viewers |-> FALSE]
    /\ chats = <<>>
    /\ hydration = [v \in Viewers |->
            [pc |-> "unmounted", error |-> FALSE, data |-> <<>>]]
    /\ sends = <<>>
    /\ \E env \in Envs : gw = [Undeployed EXCEPT !.pc = "idle", !.env = env]

NextGateway ==
    \/ \E req \in Requests : handler(req)
    \/ \E r \in UpstreamReplies : UpstreamReply(r)

SpecGateway == InitServer /\ [][NextGateway]_vars

\* The two programs of the repository side by side: a behaviour is a browser
\* session or the life of the deployed function (the browser calls the
\* completion endpoint of line 93, not api/chat.js).
InitAll == Init \/ InitServer

NextAll == Next \/ NextGateway

SpecAll == InitAll /\ [][NextAll]_vars

(***************************************************************************)
(* Vocabulary of the properties.                                           *)
(***************************************************************************)
Sends == 1..Len(sends)

Done(i) == sends[i].pc = "done"

\* The submissions of viewer v between Optimistic-Append and Settle.
InFlight(v) == {i \in Sends : sends[i].v = v /\ sends[i].pc # "done"}

\* The outcome of the k-th network call of send i, "none" before it returned.
Outcome(i, k) ==
    IF k <= Len(sends[i].outcomes) THEN sends[i].outcomes[k] ELSE "none"

\* The positions of view `ms` that hold a turn with one of the ids.
Positions(ms, ids) == {k \in 1..Len(ms) : ms[k].id \in ids}

\* The ids under which the turns of send i can be shown: the two local ids
\* and the ids the store gave to the rows of the send.
IdsOf(i) ==
    {randomUUID(i, 1), randomUUID(i, 2)}
        \cup {sends[i].rows[k] : k \in 1..Len(sends[i].rows)}

\* The positions of view `ms` that hold an assistant turn of send i.
AssistantPositions(ms, i) ==
    {k \in Positions(ms, IdsOf(i)) : ms[k].role = "assistant"}

IsPrefix(s, t) == Len(s) <= Len(t) /\ SubSeq(t, 1, Len(s)) = s

IsLocal(m) == m.id[1] = "uuid" /\ "created_at" \notin DOMAIN m

RoleContent(m) == [role |-> m.role, content |-> m.content]

\* C1. Single-flight: in every reachable state each viewer has at most one
\* submission between Optimistic-Append and Settle, and while it has one, a
\* submission attempt (handleSend on the current field and flag) is rejected.
C1_SingleFlight ==
    \A v \in Viewers :
        /\ Cardinality(InFlight(v)) <= 1
        /\ InFlight(v) # {} => ~ Validate(input[v], isLoading[v])

\* A second submission of a viewer is in flight after its first one settled.
C1_Witness ==
    \E v \in Viewers : \E i, j \in Sends :
        /\ sends[i].v = v /\ sends[j].v = v
        /\ Done(i) /\ j \in InFlight(v) /\ isLoading[v]

\* The turns a viewer expects after its sends 1..k all succeeded: for each
\* send the submitted text, then the completion returned for it.
RECURSIVE ExpectedTurns(_, _)
ExpectedTurns(v, k) ==
    IF k = 0 THEN <<>>
    ELSE ExpectedTurns(v, k - 1) \o
         (IF sends[k].v # v THEN <<>>
          ELSE << [role |-> "user",      content |-> sends[k].userMsgContent],
                  [role |-> "assistant", content |-> sends[k].completion] >>)

AllSucceeded(i) == Done(i) /\ sends[i].outcomes = <<"ok", "ok", "ok">>

\* C2. Ordering: when the table was empty at startup and every send so far
\* has settled with every insert and every gateway call successful, the view
\* model shows user1, assistant1, ..., user_n, assistant_n in this order.
C2_Ordering ==
    \A v \in Viewers :
        ( /\ Len(sends) > 0
          /\ \A i \in Sends : sends[i].v = v /\ AllSucceeded(i)
          /\ Len(chats) = 2 * Len(sends) )
        => MapRoleContent(messages[v]) = ExpectedTurns(v, Len(sends))

\* The gateway call of send i failed: the fetch rejected or the response had
\* a non-success status.
GatewayFailed(i) == Done(i) /\ Outcome(i, 2) \in {"rejected", "status"}

\* The message of the error the run of send i caught.
ThrownMessage(i) == sends[i].thrown[1]

HasAssistantInsert(i) ==
    \E k \in 1..Len(sends[i].inserts) : sends[i].inserts[k].role = "assistant"

\* C3 as stated. Fallback guarantee: after a failed gateway call the view
\* model has at settle exactly one assistant turn of the send, its content is
\* "Error: " followed by the failure message, and no assistant insert was
\* issued.
C3_FallbackRawMessage ==
    \A i \in Sends : GatewayFailed(i) =>
        LET ms == sends[i].atSettle
        IN  /\ AssistantPositions(ms, i) = {Len(ms)}
            /\ ms[Len(ms)].content = <<"Error: ">> \o ThrownMessage(i)
            /\ ~ HasAssistantInsert(i)

\* C3 as amended. Fallback guarantee: after a failed gateway call the view
\* model has at settle exactly one assistant turn of the send, the last one;
\* its content is "Error: " followed by the failure message, except that the
\* message 'Failed to fetch' is shown as the connectivity text; for status
\* 502 it is "Error: Nvidia API error: 502 Bad Gateway"; and no assistant
\* insert was issued.
C3_Fallback ==
    \A i \in Sends : GatewayFailed(i) =>
        LET ms    == sends[i].atSettle
            shown == IF ThrownMessage(i) = <<"Failed to fetch">>
                     THEN <<"Failed to connect to the API. This might be a CORS issue or network offline.">>
                     ELSE ThrownMessage(i)
        IN  /\ AssistantPositions(ms, i) = {Len(ms)}
            /\ IsLocal(ms[Len(ms)])
            /\ ms[Len(ms)].content = <<"Error: ">> \o shown
            /\ Outcome(i, 2) = "status" =>
                   ms[Len(ms)].content =
                       <<"Error: ", "Nvidia API error: ", "502", " ", "Bad Gateway">>
            /\ ~ HasAssistantInsert(i)

\* A send settled after its fetch rejected with 'Failed to fetch', in a view
\* model that already held turns of an earlier send.
C3_Witness ==
    \E i \in Sends :
        /\ GatewayFailed(i) /\ Outcome(i, 2) = "rejected"
        /\ ThrownMessage(i) = <<"Failed to fetch">>
        /\ Len(sends[i].atSettle) > 2

\* C4. Persistence-failure resilience: when the gateway returned completion
\* c and the assistant insert failed (returned error or rejected call), the
\* view model has at settle exactly one assistant turn of the send, it is
\* local (local id, no created_at) and its content is c.
C4_PersistenceFailure ==
    \A i \in Sends :
        (Done(i) /\ Outcome(i, 2) = "ok" /\ Outcome(i, 3) \in {"error", "rejected"}) =>
            LET ms == sends[i].atSettle
            IN  /\ AssistantPositions(ms, i) = {Len(ms)}
                /\ IsLocal(ms[Len(ms)])
                /\ ms[Len(ms)].content = sends[i].completion

\* C5. A failed user insert (returned error or rejected call) is not fatal
\* and not shown: once it has returned, the prompt has been built and sent
\* to the gateway, and the run does not settle with an assistant turn while
\* the user insert is the only call that has returned.
C5_UserInsertNonFatal ==
    \A i \in Sends :
        (Outcome(i, 1) \in {"error", "rejected"} /\ sends[i].pc # "userInsert") =>
            /\ Len(sends[i].fetches) = 1
            /\ (Done(i) /\ Len(sends[i].outcomes) = 1) =>
                   AssistantPositions(sends[i].atSettle, i) = {}

\* C6. Append-only after hydration: in every step the previous view model
\* of a viewer is a prefix of the next one, except for the one fetchChats
\* step, which is applied only to a view model that holds no turn yet.
C6_AppendOnly ==
    [][\A v \in Viewers :
          \/ IsPrefix(messages[v], messages'[v])
          \/ /\ hydration[v].pc = "answered" /\ hydration'[v].pc = "done"
             /\ messages[v] = <<>>]_vars

\* C7. No duplicates: a view model holds no two turns with the same id, and
\* for every send at most one user turn and at most one assistant turn of it
\* (counting the local and the persisted copy).
C7_NoDuplicates ==
    \A v \in Viewers :
        LET ms == messages[v]
        IN  /\ \A j, k \in 1..Len(ms) : j # k => ms[j].id # ms[k].id
            /\ \A i \in Sends : \A role \in {"user", "assistant"} :
                   Cardinality({k \in Positions(ms, IdsOf(i)) : ms[k].role = role}) <= 1

\* C8. Prompt construction: the message list sent to the gateway is the
\* system preamble, then every turn the view model holds when the prompt is
\* built other than the new user turn, in order and as {role, content}, then
\* the new user turn.
C8_Prompt ==
    \A i \in Sends : sends[i].fetches # <<>> =>
        LET others == SelectSeq(sends[i].atBuild, LAMBDA m : m.id \notin IdsOf(i))
        IN  sends[i].fetches[1] =
                <<SystemPreamble>> \o MapRoleContent(others)
                    \o <<[role |-> "user", content |-> sends[i].userMsgContent]>>

\* The optimistic user turn of send i.
OptimisticTurn(i) ==
    [id |-> <<"uuid", i, 1>>, role |-> "user", content |-> sends[i].userMsgContent]

Holds(ms, m) == \E k \in 1..Len(ms) : ms[k] = m

\* C9. Optimistic consistency: from acceptance until the first network call
\* of the send returns, the view model holds the new user turn (local id,
\* role user, trimmed input), and it still holds it when the send settles.
C9_Optimistic ==
    \A i \in Sends :
        /\ sends[i].pc = "userInsert" => Holds(messages[sends[i].v], OptimisticTurn(i))
        /\ Done(i) => Holds(sends[i].atSettle, OptimisticTurn(i))

IdRoleContent(m) == [id |-> m.id, role |-> m.role, content |-> m.content]

\* C10 as stated. Reconciliation: a send from an empty view model whose
\* three calls succeed settles with exactly two turns, the user turn with
\* the id the store gave to the user row and the assistant turn with the id
\* the store gave to the assistant row.
C10_StoreIds ==
    \A i \in Sends : (AllSucceeded(i) /\ sends[i].closure = <<>>) =>
        LET ms == sends[i].atSettle
        IN  /\ Len(ms) = 2
            /\ IdRoleContent(ms[1]) =
                   [id |-> sends[i].rows[1], role |-> "user",
                    content |-> sends[i].userMsgContent]
            /\ IdRoleContent(ms[2]) =
                   [id |-> sends[i].rows[2], role |-> "assistant",
                    content |-> sends[i].completion]

\* C10 as amended. A send from an empty view model whose three calls
\* succeed settles with, as the last turn, the row the store returned for
\* the assistant insert (store-assigned id and created_at); and when the
\* hydration had been applied before the send, the view model at settle is
\* exactly two turns: the optimistic user turn, still with its local id and
\* without created_at, and that assistant row.
C10_Reconciled ==
    \A i \in Sends : (AllSucceeded(i) /\ sends[i].closure = <<>>) =>
        LET ms   == sends[i].atSettle
            last == ms[Len(ms)]
        IN  /\ IdRoleContent(last) =
                   [id |-> sends[i].rows[2], role |-> "assistant",
                    content |-> sends[i].completion]
            /\ sends[i].rows[2][1] = "row"
            /\ "created_at" \in DOMAIN last
            /\ sends[i].hydrated => ms = <<OptimisticTurn(i), last>>

\* A send made after hydration from an empty view model has settled with
\* all three calls successful.
C10_Witness ==
    \E i \in Sends :
        AllSucceeded(i) /\ sends[i].closure = <<>> /\ sends[i].hydrated

(***************************************************************************)
(* Several viewers on the shared session.                                  *)
(***************************************************************************)
\* The ids under which the turns of viewer v's own submissions are shown.
OwnIds(v) == UNION {IdsOf(i) : i \in {j \in Sends : sends[j].v = v}}

\* The turns viewer v received from its hydration read.
Hydrated(v) ==
    IF hydration[v].pc = "done" /\ ~ hydration[v].error
    THEN {hydration[v].data[k] : k \in 1..Len(hydration[v].data)}
    ELSE {}

\* Every turn a viewer holds is from its hydration read or has an id of its
\* own pipeline.
C11_OwnTurns ==
    \A v \in Viewers : \A k \in 1..Len(messages[v]) :
        \/ messages[v][k] \in Hydrated(v)
        \/ messages[v][k].id \in OwnIds(v)

\* A step that changes a viewer's view model is the arrival of that viewer's
\* hydration read, the acceptance of a submission of that viewer, or the
\* settling of one.
C11_OwnSteps ==
    \A v \in Viewers :
        messages'[v] # messages[v] =>
            \/ hydration[v].pc = "answered" /\ hydration'[v].pc = "done"
            \/ /\ Len(sends') = Len(sends) + 1
               /\ sends'[Len(sends')].v = v
            \/ \E i \in Sends :
                  /\ sends[i].v = v
                  /\ sends[i].pc # "done" /\ sends'[i].pc = "done"

\* C11. No cross-viewer live update: with several viewers appending to the
\* shared session, every turn a viewer holds is from its hydration read or
\* from its own pipeline, and its view model changes only in a step of its
\* own hydration or of its own submissions; an append by another viewer
\* leaves it unchanged.
C11_NoCrossViewerUpdate == [] C11_OwnTurns /\ [][C11_OwnSteps]_vars

\* Two viewers have each completed a stored exchange, and the first of them,
\* hydrated before, shows nothing of the other's exchange.
C11_Witness ==
    \E v, w \in Viewers : \E i, j \in Sends :
        /\ v # w /\ sends[i].v = v /\ sends[j].v = w
        /\ Done(i) /\ Done(j) /\ AllSucceeded(i) /\ AllSucceeded(j)
        /\ hydration[v].pc = "done"
        /\ \E k \in 1..Len(chats) : chats[k].id \in IdsOf(j)
        /\ Positions(messages[v], IdsOf(j)) = {}
        /\ Positions(messages[v], IdsOf(i)) # {}

(***************************************************************************)
(* The serverless function.                                                *)
(***************************************************************************)
\* The invocation has returned.
Responded == gw.pc = "responded"

\* The reply the upstream gave to the invocation, if it was called.
UpstreamAnswered == Responded /\ gw.reply # <<>>

\* Sequence s occurs in sequence t as a run of consecutive elements.
Occurs(s, t) ==
    \E k \in 0..(Len(t) - Len(s)) : SubSeq(t, k + 1, k + Len(s)) = s

\* Two JSON texts that differ in insignificant whitespace only.
SameJson(a, b) ==
    SelectSeq(a, LAMBDA t : t # " ") = SelectSeq(b, LAMBDA t : t # " ")

\* C12. Gateway response mapping for a POST request: a missing credential
\* yields 500 with a JSON {error} body and no upstream call; an upstream
\* non-2xx status s yields status s with a JSON {error} body carrying s and
\* the upstream body text; an exception yields 500 with a JSON {error} body;
\* an upstream success yields 200 with the upstream JSON unchanged.  Exactly
\* one response is sent per request and the handler never throws.
C12_ResponseMapping ==
    /\ ~ gw.threw
    /\ Len(gw.sent) <= 1
    /\ gw.pc = "upstream" => gw.sent = <<>>
    /\ Responded => Len(gw.sent) = 1
    /\ (Responded /\ gw.req.method = "POST") =>
         LET response == gw.sent[1]
             noKey    == gw.env.VITE_NVIDIA_API_KEY = <<>>
                           /\ gw.env.NVIDIA_API_KEY = <<>>
         IN  /\ noKey =>
                  /\ response.status = 500 /\ "error" \in response.keys
                  /\ response.error # <<>>
                  /\ gw.upstream = <<>>
             /\ (~ noKey /\ ~ gw.req.body.defined) =>
                  /\ response.status = 500 /\ "error" \in response.keys
                  /\ response.error # <<>>
             /\ (~ noKey /\ gw.req.body.defined) => Len(gw.upstream) = 1
             /\ gw.reply # <<>> =>
                  LET r == gw.reply[1]
                  IN  /\ r.kind = "rejected" =>
                           /\ response.status = 500
                           /\ "error" \in response.keys
                           /\ response.error # <<>>
                      /\ (r.kind = "response" /\ ~ r.ok) =>
                           /\ response.status = r.status
                           /\ "error" \in response.keys
                           /\ Occurs(<<StatusString(r.status)>>, response.error)
                           /\ Occurs(r.text, response.error)
                      /\ (r.kind = "response" /\ r.ok /\ ~ IsJson(r.text)) =>
                           /\ response.status = 500
                           /\ "error" \in response.keys
                           /\ response.error # <<>>
                      /\ (r.kind = "response" /\ r.ok /\ IsJson(r.text)) =>
                           /\ response.status = 200
                           /\ response.keys = {"data"}
                           /\ SameJson(response.data, r.text)

\* A POST request whose upstream call was answered 429 has been answered.
C12_Witness ==
    /\ UpstreamAnswered
    /\ gw.req.method = "POST"
    /\ gw.reply[1].kind = "response" /\ gw.reply[1].status = 429

\* C13. Gateway method handling: OPTIONS is answered with success and the
\* permissive cross-origin headers; any method other than OPTIONS and POST
\* is rejected with 405 and a JSON {error} body; in both cases the
\* credential is not read and no upstream call is made.
C13_MethodHandling ==
    (gw.pc \notin {"undeployed", "idle"} /\ gw.req.method # "POST") =>
        /\ Responded
        /\ Len(gw.sent) = 1
        /\ ~ gw.envRead /\ gw.apiKey = <<>>
        /\ gw.upstream = <<>>
        /\ gw.req.method = "OPTIONS" =>
             /\ gw.sent[1].status = 200
             /\ gw.sent[1].keys = {}
             /\ <<"Access-Control-Allow-Origin", "*">> \in gw.headers
             /\ \E h \in gw.headers :
                  h[1] = "Access-Control-Allow-Methods"
             /\ \E h \in gw.headers :
                  h[1] = "Access-Control-Allow-Headers"
        /\ gw.req.method # "OPTIONS" =>
             /\ gw.sent[1].status = 405
             /\ "error" \in gw.sent[1].keys
             /\ gw.sent[1].error # <<>>

\* A PUT request with a body has been answered, with a credential configured.
C13_Witness ==
    /\ Responded
    /\ gw.req.method = "PUT" /\ gw.req.body.defined
    /\ gw.env.NVIDIA_API_KEY # <<>>

(***************************************************************************)
(* The credential.                                                         *)
(***************************************************************************)
\* The text holds a value of the upstream credential.
HoldsCredential(text) == \E key \in Keys : Occurs(key, text)

\* C14. Credential confidentiality, client side: no request the browser
\* sends to the completion endpoint carries the upstream credential.
C14_ClientSendsNoCredential ==
    \A i \in Sends : \A k \in 1..Len(sends[i].requests) :
        ~ HoldsCredential(sends[i].requests[k].headers.Authorization)

(***************************************************************************)
(* Retries.                                                                *)
(***************************************************************************)
\* The gateway call of send i returned anything but a usable response.
GatewayCallFailed(i) == Outcome(i, 2) \in {"rejected", "status", "malformed"}

\* C15. No retry: every accepted submission issues at most one gateway call
\* and every invocation of the handler at most one upstream call, whatever
\* the outcome; after a gateway failure the flow of the submission has
\* terminated, with one gateway call and no further store call.
C15_NoRetry ==
    /\ \A i \in Sends :
         /\ Len(sends[i].requests) <= 1
         /\ Len(sends[i].fetches) <= 1
         /\ GatewayCallFailed(i) =>
              /\ Done(i)
              /\ Len(sends[i].requests) = 1
              /\ Len(sends[i].inserts) = 1
    /\ gw.pc # "undeployed" =>
         /\ Len(gw.upstream) <= 1
         /\ gw.reply # <<>> => (Responded /\ Len(gw.upstream) = 1)

\* A submission whose gateway call was answered with a non-2xx status has
\* settled.
C15_Witness ==
    \E i \in Sends :
        /\ Done(i) /\ Outcome(i, 2) = "status"
        /\ Len(sends[i].requests) = 1

(***************************************************************************)
(* The rows of the store.                                                  *)
(***************************************************************************)
\* A row or an insert payload has the shape of a stored turn.
StoredShape(r) ==
    /\ r.session_id = getSessionId
    /\ r.role \in {"user", "assistant"}
    /\ r.role # SystemPreamble.role

\* C16. Every payload the orchestrator passes to the insert, and every row
\* of the table, has the fixed session id and role user or assistant; the
\* system preamble is sent in the prompt only and is never inserted.
C16_RowShape ==
    /\ \A i \in Sends : \A k \in 1..Len(sends[i].inserts) :
         StoredShape(sends[i].inserts[k])
    /\ \A k \in 1..Len(chats) : StoredShape(chats[k])
    /\ \A i \in Sends : \A k \in 1..Len(sends[i].fetches) :
         sends[i].fetches[k][1] = SystemPreamble

\* A submission has sent its prompt, which begins with the preamble, and both
\* its rows are in the table.
C16_Witness ==
    \E i \in Sends :
        /\ AllSucceeded(i)
        /\ Len(sends[i].fetches) = 1
        /\ sends[i].fetches[1][1].role = "system"
        /\ Cardinality({k \in 1..Len(chats) : chats[k].id \in IdsOf(i)}) = 2

(***************************************************************************)
(* Settle.                                                                 *)
(***************************************************************************)
\* A text a viewer may submit.
Submittable == <<"a">>

\* Whenever no run of a viewer is in flight its flag is clear, and a
\* submission of a non-blank text is accepted.
C17_Reenabled ==
    \A v \in Viewers :
        InFlight(v) = {} =>
            /\ ~ isLoading[v]
            /\ Validate(Submittable, isLoading[v])

\* A settled run has appended its last turn and, if it caught an error, has
\* shown it as an assistant turn: no error left the pipeline.
C17_Caught ==
    \A i \in Sends : Done(i) =>
        /\ sends[i].atSettle # <<>>
        /\ sends[i].thrown # <<>> =>
             LET last == sends[i].atSettle[Len(sends[i].atSettle)]
             IN  last.role = "assistant" /\ last.content[1] = "Error: "

\* C17. Settle: every accepted submission whose network calls each return
\* or fail eventually settles, on every path; when it has settled the flag
\* of its viewer is clear unless a later submission of the viewer is in
\* flight, the error it met (if any) was caught and shown, and the next
\* submission of the viewer is accepted.
C17_Settle ==
    /\ \A i \in 1..MaxSubmits : (Len(sends) >= i) ~> (Len(sends) >= i /\ Done(i))
    /\ [] C17_Reenabled
    /\ [] C17_Caught

\* After a submission whose assistant insert was rejected has settled, the
\* next submission of the viewer has been accepted.
C17_Witness ==
    \E i, j \in Sends :
        /\ i < j /\ sends[i].v = sends[j].v
        /\ Done(i) /\ Outcome(i, 3) = "rejected" /\ sends[i].thrown # <<>>
        /\ ~ Done(j)

(***************************************************************************)
(* Validate.                                                               *)
(***************************************************************************)
\* The text is empty or consists of spaces.
Blank(text) == \A k \in 1..Len(text) : text[k] = " "

\* The text between its first and its last token that is not a space.
Stripped(text) ==
    LET ks == {k \in 1..Len(text) : text[k] # " "}
        lo == CHOOSE k \in ks : \A j \in ks : k <= j
        hi == CHOOSE k \in ks : \A j \in ks : j <= k
    IN  IF ks = {} THEN <<>> ELSE SubSeq(text, lo, hi)

\* Every accepted submission was typed as a non-blank text, and the content
\* of its user turn, of its user insert and of the last message of its
\* prompt is that text without the surrounding spaces.
C18_Trimmed ==
    \A i \in Sends :
        /\ ~ Blank(sends[i].typed)
        /\ sends[i].userMsgContent = Stripped(sends[i].typed)
        /\ sends[i].inserts[1].role = "user"
        /\ sends[i].inserts[1].content = Stripped(sends[i].typed)
        /\ \A k \in 1..Len(sends[i].fetches) :
             LET prompt == sends[i].fetches[k]
             IN  prompt[Len(prompt)] =
                     [role |-> "user", content |-> Stripped(sends[i].typed)]

\* While the field of a viewer is blank no step accepts a submission of the
\* viewer: no turn is shown for it, no insert is requested, its flag keeps
\* its value unless a run of the viewer settles.  A step that accepts a
\* submission shows the stripped text as the last turn of the view model.
C18_Accepts ==
    \A v \in Viewers :
        /\ Blank(input[v]) =>
             /\ ~ (Len(sends') > Len(sends) /\ sends'[Len(sends')].v = v)
             /\ (~ isLoading[v] => ~ isLoading'[v])
             /\ (InFlight(v) = {} /\ hydration[v].pc # "answered") =>
                  messages'[v] = messages[v]
        /\ (Len(sends') > Len(sends) /\ sends'[Len(sends')].v = v) =>
             /\ Len(messages'[v]) = Len(messages[v]) + 1
             /\ RoleContent(messages'[v][Len(messages'[v])]) =
                    [role |-> "user", content |-> Stripped(input[v])]

\* C18. Validate rejects empty input: a submission whose input is empty or
\* whitespace-only changes nothing and makes no network call; an accepted
\* submission uses the input without its surrounding whitespace as the
\* content of the user turn shown, persisted and sent in the prompt.
C18_Validate == [] C18_Trimmed /\ [][C18_Accepts]_vars

\* A submission typed with surrounding spaces has sent its prompt, and the
\* field of its viewer, idle again, holds spaces only.
C18_Witness ==
    \E i \in Sends :
        /\ Done(i)
        /\ sends[i].typed # sends[i].userMsgContent
        /\ Len(sends[i].fetches) = 1
        /\ input[sends[i].v] # <<>> /\ Blank(input[sends[i].v])
        /\ ~ isLoading[sends[i].v]

(***************************************************************************)
(* Locally synthesised turns.                                              *)
(***************************************************************************)
\* The turn the catch block of send i appended.
SynthesizedTurn(i) == ErrorTurn(randomUUID(i, 2), ThrownMessage(i))

\* C19. Locally synthesised turns feed later prompts: the assistant turn
\* synthesised from a gateway failure is never inserted into the store, yet
\* it stays in the view model and is sent as an assistant message in the
\* prompt of every later submission of the viewer (no viewer hydrates a
\* second time: fetchChats runs once per mount).
C19_SynthesizedTurn ==
    \A i \in Sends : (Done(i) /\ GatewayCallFailed(i)) =>
        LET E == SynthesizedTurn(i)
        IN  /\ E.content[1] = "Error: "
            /\ ~ HasAssistantInsert(i)
            /\ \A k \in 1..Len(chats) :
                 chats[k].id \in IdsOf(i) => chats[k].role = "user"
            /\ Holds(messages[sends[i].v], E)
            /\ \A j \in Sends : (j > i /\ sends[j].v = sends[i].v) =>
                 \A k \in 1..Len(sends[j].fetches) :
                     \E n \in 1..Len(sends[j].fetches[k]) :
                         sends[j].fetches[k][n] = RoleContent(E)

====
